---- MODULE Spec2Model ----
(***************************************************************************)
(* Model of the two conversion scripts of the repository:                  *)
(*   src/convert_ppt_to_html.py  (deck -> static HTML page)                *)
(*   src/create_ppt.py           (hardcoded content -> deck)               *)
(*                                                                         *)
(* Python strings are modelled as sequences of characters; a character is  *)
(* a TLA+ string of length one, except the bullet glyph U+2022, which is   *)
(* written BULLET.                                                         *)
(***************************************************************************)
EXTENDS Integers, Sequences, FiniteSets, TLC

VARIABLES
    esc_pc, esc_in, esc_out, esc_again,      \* escape_html applied to one string, and to its result
    blk_pc, blk_in, blk_out,                 \* the renderer applied to one content block
    slide, shape_idx, title, content, cls_pc, \* get_slide_content on one slide
    pc, prs, i, html_parts, outfile, printed, ret, \* __main__ / convert_pptx_to_html
    cp_pc, cp_call, cp_item, cp_slides, cp_saved,  \* create_ppt.py
    cln_pc, cln_in, cln_out                  \* clean_text applied to one string

escVars == <<esc_pc, esc_in, esc_out, esc_again>>
blkVars == <<blk_pc, blk_in, blk_out>>
clsVars == <<slide, shape_idx, title, content, cls_pc>>
cnvVars == <<pc, prs, i, html_parts, outfile, printed, ret>>
cpVars  == <<cp_pc, cp_call, cp_item, cp_slides, cp_saved>>
clnVars == <<cln_pc, cln_in, cln_out>>
vars == <<escVars, blkVars, clsVars, cnvVars, cpVars, clnVars>>

----------------------------------------------------------------------------
(* Bounds of the model.                                                    *)

MaxLen == 3          \* longest string given to escape_html
MaxBlockLen == 3     \* longest content block given to the block renderer
MaxShapes == 3       \* most shapes on the slide given to get_slide_content
MaxSlides == 3       \* most slides of a deck given to convert_pptx_to_html
MaxCleanLen == 4     \* longest string given to clean_text

----------------------------------------------------------------------------
(* Python str operations.                                                  *)

BULLET == "u2022"
NL == "\n"

Whitespace == {" ", NL, "\t"}

RECURSIVE Concat(_)
\* ''.join(seqs)
Concat(seqs) ==
    IF seqs = <<>> THEN <<>> ELSE Head(seqs) \o Concat(Tail(seqs))

\* text.replace(old, new) for a one-character old
Replace(text, old, new) ==
    Concat([k \in 1..Len(text) |-> IF text[k] = old THEN new ELSE <<text[k]>>])

RECURSIVE LStrip(_)
LStrip(s) ==
    IF s # <<>> /\ Head(s) \in Whitespace THEN LStrip(Tail(s)) ELSE s

RECURSIVE RStrip(_)
RStrip(s) ==
    IF s # <<>> /\ s[Len(s)] \in Whitespace
    THEN RStrip(SubSeq(s, 1, Len(s) - 1))
    ELSE s

\* s.strip()
Strip(s) == RStrip(LStrip(s))

RECURSIVE SplitFrom(_, _, _)
SplitFrom(s, sep, cur) ==
    IF s = <<>> THEN <<cur>>
    ELSE IF Head(s) = sep THEN <<cur>> \o SplitFrom(Tail(s), sep, <<>>)
    ELSE SplitFrom(Tail(s), sep, Append(cur, Head(s)))

\* s.split(sep) for a one-character sep
Split(s, sep) == SplitFrom(s, sep, <<>>)

RECURSIVE Join(_, _)
\* sep.join(parts)
Join(sep, parts) ==
    IF parts = <<>> THEN <<>>
    ELSE IF Len(parts) = 1 THEN parts[1]
    ELSE parts[1] \o <<sep>> \o Join(sep, Tail(parts))

\* s.startswith(c) for a one-character c
StartsWith(s, c) == s # <<>> /\ s[1] = c

\* sub in s
Contains(sub, s) ==
    \E k \in 0..(Len(s) - Len(sub)) : SubSeq(s, k + 1, k + Len(sub)) = sub

----------------------------------------------------------------------------
(* escape_html                                                             *)

AMP == <<"&", "a", "m", "p", ";">>
LT == <<"&", "l", "t", ";">>
GT == <<"&", "g", "t", ";">>
QUOT == <<"&", "q", "u", "o", "t", ";">>
APOS == <<"&", "#", "3", "9", ";">>

\* the ampersand is replaced after the other four characters
escape_html_amp_last(text) ==
    IF text = <<>> THEN <<>>
    ELSE Replace(Replace(Replace(Replace(Replace(text,
             "<", LT), ">", GT), "\"", QUOT), "'", APOS), "&", AMP)

\* the ampersand is not replaced
escape_html_no_amp(text) ==
    IF text = <<>> THEN <<>>
    ELSE Replace(Replace(Replace(Replace(text,
             "<", LT), ">", GT), "\"", QUOT), "'", APOS)

escape_html(text) ==
    IF text = <<>> THEN <<>>
    ELSE Replace(Replace(Replace(Replace(Replace(text,
             "&", AMP), "<", LT), ">", GT), "\"", QUOT), "'", APOS)

EscAlphabet == {"&", "<", ">", "\"", "'", "a", ";"}

RECURSIVE StringsUpTo(_, _)
\* all strings over alphabet of length at most n
StringsUpTo(alphabet, n) ==
    IF n = 0 THEN {<<>>}
    ELSE LET shorter == StringsUpTo(alphabet, n - 1)
         IN shorter \cup {Append(s, c) : s \in shorter, c \in alphabet}

Example == <<"<", "b", ">", "&", "\"", "'", "<", "/", "b", ">">>
ExampleEscaped == LT \o <<"b">> \o GT \o AMP \o QUOT \o APOS \o LT \o <<"/", "b">> \o GT

EscInputs == StringsUpTo(EscAlphabet, MaxLen) \cup {Example}

EscIdle == esc_pc = "off" /\ esc_in = <<>> /\ esc_out = <<>> /\ esc_again = <<>>

EscInit == esc_pc = "call" /\ esc_in \in EscInputs /\ esc_out = <<>> /\ esc_again = <<>>

EscapeCall ==
    /\ esc_pc = "call"
    /\ esc_out' = escape_html(esc_in)
    /\ esc_pc' = "done"
    /\ UNCHANGED <<esc_in, esc_again>>

\* escape_html applied to the escaped text
EscapeAgain ==
    /\ esc_pc = "done"
    /\ esc_again' = escape_html(esc_out)
    /\ esc_pc' = "twice"
    /\ UNCHANGED <<esc_in, esc_out>>

----------------------------------------------------------------------------
(* Markup fragments: the elements of html_parts. The fixed CSS and page    *)
(* header is the one fragment "header"; the footer carries the slide count *)
(* (its timestamp is left out).                                            *)

Frag(kind, text) == [kind |-> kind, text |-> text, i |-> 0, n |-> 0, title_slide |-> FALSE]
SlideOpen(is_title_slide) == [Frag("div.slide", <<>>) EXCEPT !.title_slide = is_title_slide]
SlideNumber(k, n) == [Frag("div.slide-number", <<>>) EXCEPT !.i = k, !.n = n]
Footer(n) == [Frag("div.footer", <<>>) EXCEPT !.n = n]

----------------------------------------------------------------------------
(* The per-block renderer of convert_pptx_to_html.                         *)

Glyphs == {BULLET, "-", "*"}

\* the marker pattern without the trailing \s*
StripMarker_keeps_space(line) ==
    IF line # <<>> /\ line[1] \in Glyphs THEN Tail(line) ELSE line

\* re.sub(r'^[•\-\*]\s*', '', line)
StripMarker(line) ==
    IF line # <<>> /\ line[1] \in Glyphs THEN LStrip(Tail(line)) ELSE line

\* any(line.strip().startswith(BULLET) or line.strip().startswith('-') ...)
HasBullets(lines) ==
    \E k \in 1..Len(lines) :
        /\ Strip(lines[k]) # <<>>
        /\ \/ StartsWith(Strip(lines[k]), BULLET)
           \/ StartsWith(Strip(lines[k]), "-")

RECURSIVE ListItems(_)
ListItems(lines) ==
    IF lines = <<>> THEN <<>>
    ELSE LET line == Strip(Head(lines))
         IN (IF line # <<>>
             THEN <<Frag("li", escape_html(StripMarker(line)))>>
             ELSE <<>>) \o ListItems(Tail(lines))

RECURSIVE Paragraphs(_)
Paragraphs(lines) ==
    IF lines = <<>> THEN <<>>
    ELSE (IF Strip(Head(lines)) # <<>>
          THEN <<Frag("p", escape_html(Head(lines)))>>
          ELSE <<>>) \o Paragraphs(Tail(lines))

\* the list is not closed
RenderItem_unclosed_ul(item) ==
    IF Strip(item) = <<>> THEN <<>>
    ELSE LET lines == Split(item, NL)
         IN IF HasBullets(lines)
            THEN <<Frag("ul", <<>>)>> \o ListItems(lines)
            ELSE Paragraphs(lines)

\* the body of "for item in content"
RenderItem(item) ==
    IF Strip(item) = <<>> THEN <<>>
    ELSE LET lines == Split(item, NL)
         IN IF HasBullets(lines)
            THEN <<Frag("ul", <<>>)>> \o ListItems(lines) \o <<Frag("/ul", <<>>)>>
            ELSE Paragraphs(lines)

BlockAlphabet == {BULLET, "-", "*", " ", NL, "a", "<"}

BlkInputs == StringsUpTo(BlockAlphabet, MaxBlockLen)

BlkIdle == blk_pc = "off" /\ blk_in = <<>> /\ blk_out = <<>>

BlkInit == blk_pc = "call" /\ blk_in \in BlkInputs /\ blk_out = <<>>

RenderBlock ==
    /\ blk_pc = "call"
    /\ blk_out' = RenderItem(blk_in)
    /\ blk_pc' = "done"
    /\ UNCHANGED blk_in

----------------------------------------------------------------------------
(* get_text_from_shape and get_slide_content.                              *)
(* A shape is what the library exposes of it: the has_text_frame property, *)
(* shape_type, which of the attributes text and text_frame exist, the text *)
(* and the paragraphs of the text frame.                                   *)

Shape(htf, type, attrs, text, paragraphs) ==
    [has_text_frame |-> htf, shape_type |-> type, attrs |-> attrs,
     text |-> text, paragraphs |-> paragraphs]

\* a shape with a text frame: text is the paragraphs joined by newlines
TextShape(type, text) ==
    Shape(TRUE, type, {"text", "text_frame"}, text, Split(text, NL))

\* a shape with a text frame and no text attribute
FrameShape(type, paragraphs) ==
    Shape(TRUE, type, {"text_frame"}, <<>>, paragraphs)

\* a picture: no text frame
Picture == Shape(FALSE, 13, {}, <<>>, <<>>)

get_text_from_shape(shape) ==
    IF "text" \in shape.attrs THEN shape.text
    ELSE IF "text_frame" \in shape.attrs THEN Join(NL, shape.paragraphs)
    ELSE <<>>

\* the loop body without the first-text fallback
ClassifyShape_no_fallback(t, c, shape) ==
    IF shape.has_text_frame /\ Strip(get_text_from_shape(shape)) # <<>>
    THEN IF shape.shape_type = 1
         THEN [title |-> get_text_from_shape(shape), content |-> c]
         ELSE [title |-> t, content |-> Append(c, get_text_from_shape(shape))]
    ELSE [title |-> t, content |-> c]

\* the loop body without the text.strip() test
ClassifyShape_no_strip(t, c, shape) ==
    IF shape.has_text_frame
    THEN LET text == get_text_from_shape(shape)
         IN IF shape.shape_type = 1
            THEN [title |-> text, content |-> c]
            ELSE IF t = <<>> /\ Len(c) = 0
            THEN [title |-> text, content |-> c]
            ELSE [title |-> t, content |-> Append(c, text)]
    ELSE [title |-> t, content |-> c]

\* the loop body with the placeholder branch guarded by "not title"
ClassifyShape_title_once(t, c, shape) ==
    IF shape.has_text_frame
    THEN LET text == get_text_from_shape(shape)
         IN IF Strip(text) # <<>>
            THEN IF shape.shape_type = 1 /\ t = <<>>
                 THEN [title |-> text, content |-> c]
                 ELSE IF t = <<>> /\ Len(c) = 0
                 THEN [title |-> text, content |-> c]
                 ELSE [title |-> t, content |-> Append(c, text)]
            ELSE [title |-> t, content |-> c]
    ELSE [title |-> t, content |-> c]

\* the body of "for shape in slide.shapes", from title t and content c
ClassifyShape(t, c, shape) ==
    IF shape.has_text_frame
    THEN LET text == get_text_from_shape(shape)
         IN IF Strip(text) # <<>>
            THEN IF shape.shape_type = 1
                 THEN [title |-> text, content |-> c]
                 ELSE IF t = <<>> /\ Len(c) = 0
                 THEN [title |-> text, content |-> c]
                 ELSE [title |-> t, content |-> Append(c, text)]
            ELSE [title |-> t, content |-> c]
    ELSE [title |-> t, content |-> c]

RECURSIVE ClassifyFrom(_, _, _)
ClassifyFrom(t, c, shapes) ==
    IF shapes = <<>> THEN [title |-> t, content |-> c]
    ELSE LET r == ClassifyShape(t, c, Head(shapes))
         IN ClassifyFrom(r.title, r.content, Tail(shapes))

get_slide_content(shapes) == ClassifyFrom(<<>>, <<>>, shapes)

ClsTexts == {<<" ">>, <<"a">>, <<"b">>}

ClsShapes ==
    {TextShape(type, text) : type \in {1, 14}, text \in ClsTexts}
    \cup {FrameShape(14, <<<<"a">>, <<"b">>>>), FrameShape(1, <<<<>>, <<" ">>>>), Picture}

RECURSIVE SeqsUpTo(_, _)
\* all sequences over S of length at most n
SeqsUpTo(S, n) ==
    IF n = 0 THEN {<<>>}
    ELSE LET shorter == SeqsUpTo(S, n - 1)
         IN shorter \cup {Append(s, x) : s \in shorter, x \in S}

ClsIdle ==
    /\ cls_pc = "off" /\ slide = <<>> /\ shape_idx = 0
    /\ title = <<>> /\ content = <<>>

ClsInit ==
    /\ cls_pc = "loop"
    /\ slide \in SeqsUpTo(ClsShapes, MaxShapes)
    /\ shape_idx = 1
    /\ title = <<>>
    /\ content = <<>>

\* one iteration of "for shape in slide.shapes"
NextShape ==
    /\ cls_pc = "loop"
    /\ shape_idx <= Len(slide)
    /\ LET r == ClassifyShape(title, content, slide[shape_idx])
       IN title' = r.title /\ content' = r.content
    /\ shape_idx' = shape_idx + 1
    /\ UNCHANGED <<slide, cls_pc>>

\* return title, content
ReturnContent ==
    /\ cls_pc = "loop"
    /\ shape_idx > Len(slide)
    /\ cls_pc' = "done"
    /\ UNCHANGED <<slide, shape_idx, title, content>>

----------------------------------------------------------------------------
(* convert_pptx_to_html and the __main__ block of convert_ppt_to_html.py.  *)

THANK_YOU == <<"T", "h", "a", "n", "k", " ", "Y", "o", "u">>
QUESTIONS == <<"Q", "u", "e", "s", "t", "i", "o", "n", "s">>

RECURSIVE RenderContent(_)
\* for item in content: ...
RenderContent(items) ==
    IF items = <<>> THEN <<>>
    ELSE RenderItem(Head(items)) \o RenderContent(Tail(items))

\* the deck's last slide is not given the title style
IsTitleSlide_first_only(k, n, t) ==
    k = 1 \/ Contains(THANK_YOU, t) \/ Contains(QUESTIONS, t)

\* is_title_slide of slide k of n with title t
IsTitleSlide(k, n, t) ==
    k = 1 \/ k = n \/ Contains(THANK_YOU, t) \/ Contains(QUESTIONS, t)

\* what one iteration of "for i, slide in enumerate(prs.slides, 1)" appends
SlideHtml(k, n, shapes) ==
    LET r == get_slide_content(shapes)
        is_title_slide == IsTitleSlide(k, n, r.title)
    IN  <<SlideOpen(is_title_slide), SlideNumber(k, n)>>
        \o (IF r.title # <<>>
            THEN IF is_title_slide
                 THEN <<Frag("h1", escape_html(r.title))>>
                 ELSE <<Frag("h2.slide-title", escape_html(r.title))>>
            ELSE <<>>)
        \o (IF r.content # <<>>
            THEN <<Frag("div.slide-content", <<>>)>>
                 \o RenderContent(r.content)
                 \o <<Frag("/div", <<>>)>>
            ELSE <<>>)
        \o <<Frag("/div", <<>>)>>

\* the output file before the run: missing, or holding an earlier page
Absent == [exists |-> FALSE, data |-> <<>>]
OldFile == [exists |-> TRUE, data |-> <<Frag("old", <<>>)>>]

TitleT(text) == TextShape(1, text)
BodyT(text) == TextShape(14, text)

\* the slides the decks are made of
DeckSlides ==
    { <<>>,
      <<TitleT(THANK_YOU)>>,
      <<TitleT(<<"a">>)>>,
      <<TitleT(<<"a">>), BodyT(<<"-", " ", "a", NL, "*", " ", "<">>)>>,
      <<TitleT(<<"?">> \o QUESTIONS), BodyT(<<"a", NL, "b">>)>>,
      <<BodyT(<<"x">>)>>,
      <<Picture, BodyT(<<"b">>), BodyT(<<"*", " ", "a">>)>>,
      <<BodyT(<<" ">>), TitleT(<<"a">>), BodyT(<<BULLET, "a">>), BodyT(<<"b">>)>> }

INTRO == <<"I", "n", "t", "r", "o">>
DETAILS == <<"D", "e", "t", "a", "i", "l", "s">>

\* the three-slide deck of the end-to-end scenario; its title shapes are of
\* shape_type type
ExampleDeck(type) ==
    << <<TextShape(type, INTRO)>>,
       <<TextShape(type, DETAILS),
         BodyT(<<BULLET, " ", "A", NL, BULLET, " ", "B">>)>>,
       <<TextShape(type, THANK_YOU)>> >>

ExampleDecks == {ExampleDeck(1), ExampleDeck(14)}

Decks == SeqsUpTo(DeckSlides, MaxSlides)

CnvIdle ==
    /\ pc = "off" /\ prs = <<>> /\ i = 0 /\ html_parts = <<>>
    /\ outfile = Absent /\ printed = <<>> /\ ret = -1

CnvInit ==
    /\ pc = "main"
    /\ prs \in Decks \cup ExampleDecks
    /\ i = 0
    /\ html_parts = <<>>
    /\ outfile \in {Absent, OldFile}
    /\ printed = <<>>
    /\ ret = -1

\* print("Converting PowerPoint to HTML..."); print(f"Input: {input_file}")
MainStart ==
    /\ pc = "main"
    /\ printed' = printed \o <<"converting", "input">>
    /\ pc' = "open_deck"
    /\ UNCHANGED <<prs, i, html_parts, outfile, ret>>

\* the output file is opened before the deck is read
OpenDeck_opens_output_first ==
    /\ pc = "open_deck"
    /\ html_parts' = <<Frag("header", <<>>)>>
    /\ i' = 1
    /\ pc' = "slides"
    /\ outfile' = [exists |-> TRUE, data |-> <<>>]
    /\ UNCHANGED <<prs, printed, ret>>

\* prs = Presentation(pptx_path); html_parts = [header]
OpenDeck ==
    /\ pc = "open_deck"
    /\ html_parts' = <<Frag("header", <<>>)>>
    /\ i' = 1
    /\ pc' = "slides"
    /\ UNCHANGED <<prs, outfile, printed, ret>>

\* Presentation(pptx_path) raises
OpenDeckRaises ==
    /\ pc = "open_deck"
    /\ pc' = "except_open_deck"
    /\ UNCHANGED <<prs, i, html_parts, outfile, printed, ret>>

\* one iteration of the slide loop
ProcessSlide ==
    /\ pc = "slides"
    /\ i <= Len(prs)
    /\ html_parts' = html_parts \o SlideHtml(i, Len(prs), prs[i])
    /\ i' = i + 1
    /\ UNCHANGED <<pc, prs, outfile, printed, ret>>

\* the library raises while slide i is read
ProcessSlideRaises ==
    /\ pc = "slides"
    /\ i <= Len(prs)
    /\ pc' = "except_slide"
    /\ UNCHANGED <<prs, i, html_parts, outfile, printed, ret>>

\* the footer reports one slide too few
AppendFooter_off_by_one ==
    /\ pc = "slides"
    /\ i > Len(prs)
    /\ html_parts' = Append(html_parts, Footer(Len(prs) - 1))
    /\ pc' = "open_out"
    /\ UNCHANGED <<prs, i, outfile, printed, ret>>

\* html_parts.append(footer)
AppendFooter ==
    /\ pc = "slides"
    /\ i > Len(prs)
    /\ html_parts' = Append(html_parts, Footer(Len(prs)))
    /\ pc' = "open_out"
    /\ UNCHANGED <<prs, i, outfile, printed, ret>>

\* open(output_path, 'w'): the file is created or truncated
OpenOutput ==
    /\ pc = "open_out"
    /\ outfile' = [exists |-> TRUE, data |-> <<>>]
    /\ pc' = "write"
    /\ UNCHANGED <<prs, i, html_parts, printed, ret>>

\* open(output_path, 'w') raises: the file is as it was
OpenOutputRaises ==
    /\ pc = "open_out"
    /\ pc' = "except_open_out"
    /\ UNCHANGED <<prs, i, html_parts, outfile, printed, ret>>

\* f.write(html_content); return len(prs.slides)
WriteOutput ==
    /\ pc = "write"
    /\ outfile' = [exists |-> TRUE, data |-> html_parts]
    /\ ret' = Len(prs)
    /\ pc' = "returned"
    /\ UNCHANGED <<prs, i, html_parts, printed>>

\* f.write or the closing flush raises: the file holds a proper prefix of
\* the page (of all proper prefixes, the empty one and the longest)
WriteOutputRaises ==
    /\ pc = "write"
    /\ \E k \in {0, Len(html_parts) - 1} :
          outfile' = [exists |-> TRUE, data |-> SubSeq(html_parts, 1, k)]
    /\ pc' = "except_write"
    /\ UNCHANGED <<prs, i, html_parts, printed, ret>>

\* the two success messages
MainSuccess ==
    /\ pc = "returned"
    /\ printed' = printed \o <<"success", "output">>
    /\ pc' = "done"
    /\ UNCHANGED <<prs, i, html_parts, outfile, ret>>

ExceptPcs == {"except_open_deck", "except_slide", "except_open_out", "except_write"}

\* except Exception as e: the error message and the traceback
MainExcept ==
    /\ pc \in ExceptPcs
    /\ printed' = printed \o <<"error", "traceback">>
    /\ pc' = IF pc = "except_open_deck" THEN "failed_open_deck"
             ELSE IF pc = "except_slide" THEN "failed_slide"
             ELSE IF pc = "except_open_out" THEN "failed_open_out"
             ELSE "failed_write"
    /\ UNCHANGED <<prs, i, html_parts, outfile, ret>>

----------------------------------------------------------------------------
(* create_ppt.py. The hardcoded texts are kept as the titles and, for each *)
(* item list, its length and the positions of its blank items (all of them *)
(* the empty string); clean_text leaves every title as it is written.      *)

\* an item list of n items, blank (item.strip() empty) at the given positions
Items(n, blanks) == [k \in 1..n |-> k \notin blanks]

Call(fn, t, lists) == [fn |-> fn, title |-> t, lists |-> lists]

\* the deck with a two-column slide before the closing slide
CreateCalls_with_two_column == <<
    Call("add_title_slide", "InsureMate Project Analysis", <<>>),
    Call("add_content_slide", "Technology Stack", <<Items(6, {})>>),
    Call("add_two_column_slide", "Summary", <<Items(5, {}), Items(5, {})>>),
    Call("add_title_slide", "Thank You", <<>>) >>

\* the calls of create_presentation, in order
CreateCalls == <<
    Call("add_title_slide", "InsureMate Project Analysis", <<>>),
    Call("add_content_slide", "Technology Stack", <<Items(6, {})>>),
    Call("add_content_slide", "System Architecture", <<Items(6, {})>>),
    Call("add_content_slide", "Architecture - Presentation & Application Layers", <<Items(10, {5})>>),
    Call("add_content_slide", "Architecture - Business Logic & Data Access", <<Items(13, {8})>>),
    Call("add_content_slide", "MongoDB Collections", <<Items(4, {})>>),
    Call("add_content_slide", "Insurance Collection", <<Items(13, {8})>>),
    Call("add_content_slide", "Users Collection", <<Items(12, {6})>>),
    Call("add_content_slide", "Bookings Collection", <<Items(14, {9})>>),
    Call("add_content_slide", "Tools & Usage", <<Items(5, {})>>),
    Call("add_content_slide", "Tool: list_insurance", <<Items(17, {4, 12})>>),
    Call("add_content_slide", "Tool: suggest_insurance_plan", <<Items(20, {4, 11, 19})>>),
    Call("add_content_slide", "Tool: book_insurance_with_user", <<Items(21, {4, 15})>>),
    Call("add_content_slide", "Tool: list_booking_status_by_email", <<Items(18, {4, 7, 13})>>),
    Call("add_content_slide", "MongoDB Queries", <<Items(12, {8})>>),
    Call("add_content_slide", "Cache Handling", <<Items(12, {6})>>),
    Call("add_content_slide", "Cache Details", <<Items(15, {5, 11})>>),
    Call("add_content_slide", "Cache Benefits & Flow", <<Items(14, {6})>>),
    Call("add_content_slide", "System Initialization", <<Items(9, {})>>),
    Call("add_content_slide", "Request Processing Flow", <<Items(11, {})>>),
    Call("add_content_slide", "Error Handling", <<Items(12, {8})>>),
    Call("add_content_slide", "Performance & Monitoring", <<Items(12, {8})>>),
    Call("add_content_slide", "Security Features", <<Items(15, {7, 10, 13})>>),
    Call("add_content_slide", "Core Services", <<Items(7, {})>>),
    Call("add_content_slide", "Configuration", <<Items(11, {3})>>),
    Call("add_content_slide", "Utilities", <<Items(3, {})>>),
    Call("add_content_slide", "Widgets (UI Components)", <<Items(12, {3, 10})>>),
    Call("add_content_slide", "Summary", <<Items(10, {})>>),
    Call("add_title_slide", "Thank You", <<>>) >>

\* add_title_slide: layout 0, title and subtitle placeholders
add_title_slide(c) ==
    [layout |-> 0, title |-> c.title, columns |-> <<>>]

\* add_content_slide up to text_frame.clear(), which leaves one paragraph
add_content_slide(c) ==
    [layout |-> 1, title |-> c.title, columns |-> <<1>>]

\* add_two_column_slide up to the two text frames' clear()
add_two_column_slide(c) ==
    [layout |-> 3, title |-> c.title, columns |-> <<1, 1>>]

NewSlide(c) ==
    IF c.fn = "add_title_slide" THEN add_title_slide(c)
    ELSE IF c.fn = "add_content_slide" THEN add_content_slide(c)
    ELSE add_two_column_slide(c)

CpIdle ==
    /\ cp_pc = "off" /\ cp_call = 0 /\ cp_item = <<0, 0>>
    /\ cp_slides = <<>> /\ cp_saved = FALSE

CpInit ==
    /\ cp_pc = "main" /\ cp_call = 0 /\ cp_item = <<0, 0>>
    /\ cp_slides = <<>> /\ cp_saved = FALSE

\* prs = Presentation()
NewPresentation ==
    /\ cp_pc = "main"
    /\ cp_slides' = <<>>
    /\ cp_call' = 1
    /\ cp_pc' = "calls"
    /\ UNCHANGED <<cp_item, cp_saved>>

\* a helper is called: the slide is added and its title set
BeginSlide ==
    /\ cp_pc = "calls"
    /\ cp_call <= Len(CreateCalls)
    /\ cp_slides' = Append(cp_slides, NewSlide(CreateCalls[cp_call]))
    /\ cp_item' = <<1, 1>>
    /\ cp_pc' = "items"
    /\ UNCHANGED <<cp_call, cp_saved>>

\* one iteration of "for item in ...": a paragraph for a non-blank item
AddParagraph ==
    /\ cp_pc = "items"
    /\ LET lists == CreateCalls[cp_call].lists
           col == cp_item[1]
           k == cp_item[2]
           n == Len(cp_slides)
       IN /\ col <= Len(lists)
          /\ k <= Len(lists[col])
          /\ cp_slides' =
                IF lists[col][k]
                THEN [cp_slides EXCEPT ![n].columns[col] = @ + 1]
                ELSE cp_slides
          /\ cp_item' = <<col, k + 1>>
    /\ UNCHANGED <<cp_pc, cp_call, cp_saved>>

\* an item loop ends
EndColumn ==
    /\ cp_pc = "items"
    /\ LET lists == CreateCalls[cp_call].lists
       IN /\ cp_item[1] <= Len(lists)
          /\ cp_item[2] > Len(lists[cp_item[1]])
    /\ cp_item' = <<cp_item[1] + 1, 1>>
    /\ UNCHANGED <<cp_pc, cp_call, cp_slides, cp_saved>>

\* the helper returns
EndSlide ==
    /\ cp_pc = "items"
    /\ cp_item[1] > Len(CreateCalls[cp_call].lists)
    /\ cp_call' = cp_call + 1
    /\ cp_pc' = "calls"
    /\ UNCHANGED <<cp_item, cp_slides, cp_saved>>

\* return prs; prs.save(output_file)
SavePresentation ==
    /\ cp_pc = "calls"
    /\ cp_call > Len(CreateCalls)
    /\ cp_saved' = TRUE
    /\ cp_pc' = "done"
    /\ UNCHANGED <<cp_call, cp_item, cp_slides>>

----------------------------------------------------------------------------
(* clean_text of create_ppt.py. The emoji are written by their code        *)
(* points; four of the thirteen are followed by the variation selector     *)
(* U+FE0F.                                                                 *)

\* the index of the first c in s, 0 when there is none
IndexOf(s, c) ==
    IF \E q \in 1..Len(s) : s[q] = c
    THEN CHOOSE q \in 1..Len(s) : s[q] = c /\ \A r \in 1..(q - 1) : s[r] # c
    ELSE 0

RECURSIVE RemoveTags_no_nested(_)
\* the tag pattern <[^<>]+>, which stops at an inner <
RemoveTags_no_nested(s) ==
    IF s = <<>> THEN <<>>
    ELSE LET q == IndexOf(Tail(s), ">")
         IN IF /\ Head(s) = "<"
               /\ q >= 2
               /\ \A r \in 1..(q - 1) : Tail(s)[r] # "<"
            THEN RemoveTags_no_nested(SubSeq(s, q + 2, Len(s)))
            ELSE <<Head(s)>> \o RemoveTags_no_nested(Tail(s))

RECURSIVE RemoveTags(_)
\* re.sub(r'<[^>]+>', '', text): a match starts at a < that has at least one
\* character before the next >, and ends at that >
RemoveTags(s) ==
    IF s = <<>> THEN <<>>
    ELSE LET q == IndexOf(Tail(s), ">")
         IN IF Head(s) = "<" /\ q >= 2
            THEN RemoveTags(SubSeq(s, q + 2, Len(s)))
            ELSE <<Head(s)>> \o RemoveTags(Tail(s))

RECURSIVE Remove(_, _)
\* text.replace(old, '') for a non-empty old
Remove(text, old) ==
    IF Len(text) < Len(old) THEN text
    ELSE IF SubSeq(text, 1, Len(old)) = old
    THEN Remove(SubSeq(text, Len(old) + 1, Len(text)), old)
    ELSE <<Head(text)>> \o Remove(Tail(text), old)

VS16 == "UFE0F"

\* the replaced emoji, in the order of the replace calls
Emoji ==
    << <<"U1F3E5">>, <<"U1F4DA">>, <<"U1F3D7", VS16>>, <<"U1F4E6">>,
       <<"U1F6E0", VS16>>, <<"U1F50D">>, <<"U1F4BE">>, <<"U2699", VS16>>,
       <<"U1F527">>, <<"U1F3A8">>, <<"U1F4F1">>, <<"U1F4BC">>,
       <<"U1F5C4", VS16>> >>

RECURSIVE RemoveEach(_, _)
RemoveEach(text, olds) ==
    IF olds = <<>> THEN text
    ELSE RemoveEach(Remove(text, Head(olds)), Tail(olds))

RECURSIVE Words(_, _)
\* text.split(): the maximal runs of characters that are not whitespace
Words(s, cur) ==
    IF s = <<>> THEN (IF cur = <<>> THEN <<>> ELSE <<cur>>)
    ELSE IF Head(s) \in Whitespace
    THEN (IF cur = <<>> THEN <<>> ELSE <<cur>>) \o Words(Tail(s), <<>>)
    ELSE Words(Tail(s), Append(cur, Head(s)))

clean_text(text) ==
    Strip(Join(" ", Words(RemoveEach(RemoveTags(text), Emoji), <<>>)))

CleanAlphabet == {"<", ">", "a", " ", "U1F3E5", "U1F3D7", VS16}

NestedExample == <<"<", "<", "a", ">", "b", ">">>

ClnInputs == StringsUpTo(CleanAlphabet, MaxCleanLen) \cup {NestedExample}

ClnIdle == cln_pc = "off" /\ cln_in = <<>> /\ cln_out = <<>>

ClnInit == cln_pc = "call" /\ cln_in \in ClnInputs /\ cln_out = <<>>

CleanCall ==
    /\ cln_pc = "call"
    /\ cln_out' = clean_text(cln_in)
    /\ cln_pc' = "done"
    /\ UNCHANGED cln_in

----------------------------------------------------------------------------
(* Specifications.                                                         *)

\* escape_html on every string of EscInputs
NextEscape ==
    \/ EscapeCall /\ UNCHANGED <<blkVars, clsVars, cnvVars, cpVars, clnVars>>
    \/ EscapeAgain /\ UNCHANGED <<blkVars, clsVars, cnvVars, cpVars, clnVars>>
InitEscape == EscInit /\ BlkIdle /\ ClsIdle /\ CnvIdle /\ CpIdle /\ ClnIdle
SpecEscape == InitEscape /\ [][NextEscape]_vars

\* the block renderer on every block of BlkInputs
NextBlock == RenderBlock /\ UNCHANGED <<escVars, clsVars, cnvVars, cpVars, clnVars>>
InitBlock == BlkInit /\ EscIdle /\ ClsIdle /\ CnvIdle /\ CpIdle /\ ClnIdle
SpecBlock == InitBlock /\ [][NextBlock]_vars

\* get_slide_content, shape by shape, on every slide of at most MaxShapes shapes
NextClassify ==
    \/ NextShape /\ UNCHANGED <<escVars, blkVars, cnvVars, cpVars, clnVars>>
    \/ ReturnContent /\ UNCHANGED <<escVars, blkVars, cnvVars, cpVars, clnVars>>
InitClassify == ClsInit /\ EscIdle /\ BlkIdle /\ CnvIdle /\ CpIdle /\ ClnIdle
SpecClassify == InitClassify /\ [][NextClassify]_vars

\* a run of convert_ppt_to_html.py on every deck of Decks
NextConvert ==
    \/ MainStart /\ UNCHANGED <<escVars, blkVars, clsVars, cpVars, clnVars>>
    \/ OpenDeck /\ UNCHANGED <<escVars, blkVars, clsVars, cpVars, clnVars>>
    \/ OpenDeckRaises /\ UNCHANGED <<escVars, blkVars, clsVars, cpVars, clnVars>>
    \/ ProcessSlide /\ UNCHANGED <<escVars, blkVars, clsVars, cpVars, clnVars>>
    \/ ProcessSlideRaises /\ UNCHANGED <<escVars, blkVars, clsVars, cpVars, clnVars>>
    \/ AppendFooter /\ UNCHANGED <<escVars, blkVars, clsVars, cpVars, clnVars>>
    \/ OpenOutput /\ UNCHANGED <<escVars, blkVars, clsVars, cpVars, clnVars>>
    \/ OpenOutputRaises /\ UNCHANGED <<escVars, blkVars, clsVars, cpVars, clnVars>>
    \/ WriteOutput /\ UNCHANGED <<escVars, blkVars, clsVars, cpVars, clnVars>>
    \/ WriteOutputRaises /\ UNCHANGED <<escVars, blkVars, clsVars, cpVars, clnVars>>
    \/ MainSuccess /\ UNCHANGED <<escVars, blkVars, clsVars, cpVars, clnVars>>
    \/ MainExcept /\ UNCHANGED <<escVars, blkVars, clsVars, cpVars, clnVars>>
InitConvert == CnvInit /\ EscIdle /\ BlkIdle /\ ClsIdle /\ CpIdle /\ ClnIdle
SpecConvert == InitConvert /\ [][NextConvert]_vars

\* clean_text on every string of ClnInputs
NextClean == CleanCall /\ UNCHANGED <<escVars, blkVars, clsVars, cnvVars, cpVars>>
InitClean == ClnInit /\ EscIdle /\ BlkIdle /\ ClsIdle /\ CnvIdle /\ CpIdle
SpecClean == InitClean /\ [][NextClean]_vars

\* a run of create_ppt.py
NextCreate ==
    \/ NewPresentation /\ UNCHANGED <<escVars, blkVars, clsVars, cnvVars, clnVars>>
    \/ BeginSlide /\ UNCHANGED <<escVars, blkVars, clsVars, cnvVars, clnVars>>
    \/ AddParagraph /\ UNCHANGED <<escVars, blkVars, clsVars, cnvVars, clnVars>>
    \/ EndColumn /\ UNCHANGED <<escVars, blkVars, clsVars, cnvVars, clnVars>>
    \/ EndSlide /\ UNCHANGED <<escVars, blkVars, clsVars, cnvVars, clnVars>>
    \/ SavePresentation /\ UNCHANGED <<escVars, blkVars, clsVars, cnvVars, clnVars>>
InitCreate == CpInit /\ EscIdle /\ BlkIdle /\ ClsIdle /\ CnvIdle /\ ClnIdle
SpecCreate == InitCreate /\ [][NextCreate]_vars

----------------------------------------------------------------------------
(* Properties of get_slide_content (SpecClassify).                         *)

\* the shape has a text frame and its text is not blank
IsNonBlankText(shape) ==
    shape.has_text_frame /\ Strip(get_text_from_shape(shape)) # <<>>

NonBlankTextShapes(shapes) ==
    {k \in 1..Len(shapes) : IsNonBlankText(shapes[k])}

\* C1: when the first shape of the slide is a non-blank title placeholder
\* (shape_type 1), the returned title is that shape's text, whatever shapes
\* follow it.
C1_FirstTitleShapeWins ==
    (/\ cls_pc = "done"
     /\ Len(slide) >= 1
     /\ IsNonBlankText(slide[1])
     /\ slide[1].shape_type = 1)
    => title = get_text_from_shape(slide[1])

\* C2: a non-blank title placeholder processed when a title is already
\* assigned leaves the title unchanged and is appended to content.
C2_TitleAssignedOnce ==
    [][(/\ cls_pc = "loop"
        /\ shape_idx <= Len(slide)
        /\ shape_idx' = shape_idx + 1
        /\ IsNonBlankText(slide[shape_idx])
        /\ slide[shape_idx].shape_type = 1
        /\ title # <<>>)
       => (/\ title' = title
           /\ content' = Append(content, get_text_from_shape(slide[shape_idx])))]_vars

\* C3: a slide with exactly one non-blank text shape, of any kind and at any
\* position, yields that shape's text as the title and no content.
C3_SingleTextIsTitle ==
    (cls_pc = "done" /\ Cardinality(NonBlankTextShapes(slide)) = 1)
    => LET k == CHOOSE k \in NonBlankTextShapes(slide) : TRUE
       IN content = <<>> /\ title = get_text_from_shape(slide[k])

C3_Witness ==
    /\ cls_pc = "done"
    /\ Len(slide) = 3
    /\ NonBlankTextShapes(slide) = {2}
    /\ slide[2].shape_type # 1
    /\ ~slide[1].has_text_frame
    /\ content = <<>>
    /\ title = <<"a">>

RECURSIVE IsSubseq(_, _)
\* a is b with some elements left out
IsSubseq(a, b) ==
    IF a = <<>> THEN TRUE
    ELSE IF b = <<>> THEN FALSE
    ELSE IF Head(a) = Head(b) THEN IsSubseq(Tail(a), Tail(b))
    ELSE IsSubseq(a, Tail(b))

\* the texts of the shapes processed so far, in shape order
ProcessedTexts ==
    [k \in 1..(shape_idx - 1) |-> get_text_from_shape(slide[k])]

\* C9: throughout the shape loop and in the result, every content block is
\* non-blank after trimming, content is a subsequence of the texts of the
\* shapes processed so far, and a step only ever appends to it.
C9_ContentNonBlankInOrder ==
    /\ [](/\ \A k \in 1..Len(content) : Strip(content[k]) # <<>>
          /\ IsSubseq(content, ProcessedTexts))
    /\ [][\/ content' = content
          \/ /\ shape_idx <= Len(slide)
             /\ content' = Append(content, get_text_from_shape(slide[shape_idx]))]_vars

C9_Witness ==
    /\ cls_pc = "done"
    /\ Len(slide) = 3
    /\ ~IsNonBlankText(slide[2])
    /\ slide[2].has_text_frame
    /\ title = <<"a">>
    /\ content = <<<<"a">> \o <<NL>> \o <<"b">>>>

----------------------------------------------------------------------------
(* Properties of the block renderer (SpecBlock).                           *)

\* some line of the block starts, after trimming, with a bullet glyph
HasGlyphLine(item) ==
    \E k \in 1..Len(Split(item, NL)) :
        LET line == Strip(Split(item, NL)[k])
        IN line # <<>> /\ line[1] \in Glyphs

\* C4: a block with a line that starts with one of the glyphs U+2022, '-',
\* '*' is rendered as one <ul> holding one <li> per non-blank line, the
\* marker stripped.
C4_GlyphBlockIsList ==
    (blk_pc = "done" /\ HasGlyphLine(blk_in))
    => blk_out = <<Frag("ul", <<>>)>>
                 \o ListItems(Split(blk_in, NL))
                 \o <<Frag("/ul", <<>>)>>

----------------------------------------------------------------------------
(* Properties of escape_html (SpecEscape).                                 *)

\* what one input character becomes
EntityOf(c) ==
    IF c = "&" THEN AMP
    ELSE IF c = "<" THEN LT
    ELSE IF c = ">" THEN GT
    ELSE IF c = "\"" THEN QUOT
    ELSE IF c = "'" THEN APOS
    ELSE <<c>>

\* C7: the output of escape_html holds none of < > " ', it is the input with
\* each special character replaced by its entity and nothing else changed
\* (so every & of the output starts an entity standing for one input
\* character), and the example of the specification escapes as stated.
C7_EscapeOutput ==
    esc_pc = "done"
    => /\ \A k \in 1..Len(esc_out) : esc_out[k] \notin {"<", ">", "\"", "'"}
       /\ esc_out = Concat([k \in 1..Len(esc_in) |-> EntityOf(esc_in[k])])
       /\ esc_in = Example => esc_out = ExampleEscaped

C7_Witness ==
    esc_pc = "done" /\ esc_in = Example /\ esc_out = ExampleEscaped

----------------------------------------------------------------------------
(* Properties of a run of convert_ppt_to_html.py (SpecConvert).            *)

Untouched == outfile \in {Absent, OldFile}

Failed == pc \in {"failed_open_deck", "failed_slide", "failed_open_out", "failed_write"}

ErrorOutput == <<"converting", "input", "error", "traceback">>

Headings(parts) ==
    SelectSeq(parts, LAMBDA f : f.kind \in {"h1", "h2.slide-title"})

\* C8: slide i of N is given the title style (class title-slide, title as
\* <h1>) exactly when i = 1, i = N or its title contains "Thank You" or
\* "Questions"; otherwise its title is an <h2 class="slide-title">; a slide
\* with an empty title gets no heading.
C8_TitleStyle ==
    [][(pc = "slides" /\ i <= Len(prs) /\ i' = i + 1)
       => LET new == SubSeq(html_parts', Len(html_parts) + 1, Len(html_parts'))
              t == get_slide_content(prs[i]).title
              styled == \/ i = 1
                        \/ i = Len(prs)
                        \/ Contains(THANK_YOU, t)
                        \/ Contains(QUESTIONS, t)
          IN /\ new[1] = SlideOpen(styled)
             /\ Headings(new) =
                   IF t = <<>> THEN <<>>
                   ELSE IF styled THEN <<Frag("h1", escape_html(t))>>
                   ELSE <<Frag("h2.slide-title", escape_html(t))>>]_vars

C8_Witness ==
    /\ pc = "slides"
    /\ Len(prs) = 3
    /\ i = 4
    /\ get_slide_content(prs[2]).title = <<"a">>
    /\ get_slide_content(prs[3]).title = <<"x">>
    /\ Headings(html_parts)[2] = Frag("h2.slide-title", <<"a">>)
    /\ Headings(html_parts)[3] = Frag("h1", <<"x">>)

\* C10: a conversion that succeeds on a deck of N slides (N >= 0) writes a
\* page with exactly N slide blocks, in deck order, numbered "Slide i of N"
\* for i = 1..N; the footer's slide count and the returned value are N.
C10_OneBlockPerSlide ==
    pc = "done"
    => LET N == Len(prs)
           opens == {p \in 1..Len(html_parts) : html_parts[p].kind = "div.slide"}
           numbers == SelectSeq(html_parts, LAMBDA f : f.kind = "div.slide-number")
       IN /\ outfile = [exists |-> TRUE, data |-> html_parts]
          /\ Cardinality(opens) = N
          /\ numbers = [k \in 1..N |-> SlideNumber(k, N)]
          /\ \A p \in opens :
                /\ html_parts[p + 1].kind = "div.slide-number"
                /\ LET t == get_slide_content(prs[html_parts[p + 1].i]).title
                   IN t # <<>> => html_parts[p + 2].text = escape_html(t)
          /\ html_parts[Len(html_parts)] = Footer(N)
          /\ ret = N

C10_Witness ==
    /\ pc = "done"
    /\ Len(prs) = 3
    /\ ret = 3
    /\ prs[1] # prs[2]
    /\ outfile.data = html_parts
    /\ printed = <<"converting", "input", "success", "output">>

----------------------------------------------------------------------------
(* Properties of a run of create_ppt.py (SpecCreate).                      *)

Layouts == [k \in 1..Len(cp_slides) |-> cp_slides[k].layout]

\* C6: the deck holds a title/subtitle slide, content slides with bullet
\* text and exactly one two-column slide.
C6_OneTwoColumnSlide ==
    cp_pc = "done"
    => /\ \E k \in 1..Len(cp_slides) : Layouts[k] = 0
       /\ \E k \in 1..Len(cp_slides) : Layouts[k] = 1
       /\ Cardinality({k \in 1..Len(cp_slides) : Layouts[k] = 3}) = 1

\* C6, amended: the deck is a title/subtitle slide, then content slides
\* with bullet text only, then a closing title/subtitle slide; it holds no
\* two-column slide.
C6_NoTwoColumnSlide ==
    cp_pc = "done"
    => /\ Len(cp_slides) = Len(CreateCalls)
       /\ Len(cp_slides) >= 3
       /\ Layouts[1] = 0
       /\ Layouts[Len(cp_slides)] = 0
       /\ \A k \in 2..(Len(cp_slides) - 1) :
             Layouts[k] = 1 /\ cp_slides[k].columns[1] > 1
       /\ \A k \in 1..Len(cp_slides) : Layouts[k] # 3

C6_Witness ==
    /\ cp_pc = "done"
    /\ cp_saved
    /\ Len(cp_slides) = 29
    /\ cp_slides[29].title = "Thank You"
    /\ cp_slides[13].columns = <<20>>

----------------------------------------------------------------------------
(* The end-to-end scenario (SpecConvert).                                  *)

ExamplePage ==
    << Frag("header", <<>>),
       SlideOpen(TRUE), SlideNumber(1, 3), Frag("h1", INTRO), Frag("/div", <<>>),
       SlideOpen(FALSE), SlideNumber(2, 3), Frag("h2.slide-title", DETAILS),
       Frag("div.slide-content", <<>>),
       Frag("ul", <<>>), Frag("li", <<"A">>), Frag("li", <<"B">>), Frag("/ul", <<>>),
       Frag("/div", <<>>), Frag("/div", <<>>),
       SlideOpen(TRUE), SlideNumber(3, 3), Frag("h1", THANK_YOU), Frag("/div", <<>>),
       Footer(3) >>

\* C11: the deck with slides "Intro", "Details" (one body shape with the
\* lines "• A" and "• B") and "Thank You" converts to three slide blocks:
\* the first and the third in the title style, the second in the standard
\* style with exactly one <ul> of exactly two <li>, "A" and "B".
C11_EndToEnd ==
    (pc = "done" /\ prs \in ExampleDecks)
    => /\ html_parts = ExamplePage
       /\ outfile = [exists |-> TRUE, data |-> ExamplePage]
       /\ ret = 3

C11_Witness ==
    /\ pc = "done"
    /\ prs = ExampleDeck(1)
    /\ outfile.data = ExamplePage

----------------------------------------------------------------------------
(* Further properties of get_slide_content (SpecClassify).                 *)

\* the non-blank text shapes among those processed so far
ProcessedNonBlank ==
    {k \in NonBlankTextShapes(slide) : k < shape_idx}

\* C12: a step on a shape without a text frame, or whose text is blank after
\* trimming, changes neither title nor content; so the first non-blank text
\* shape, whatever precedes it, is the one that becomes the title.
C12_SkippedShapesChangeNothing ==
    /\ [][(/\ cls_pc = "loop"
           /\ shape_idx <= Len(slide)
           /\ shape_idx' = shape_idx + 1
           /\ ~IsNonBlankText(slide[shape_idx]))
          => (title' = title /\ content' = content)]_vars
    /\ [](\A k \in 1..Len(slide) :
             ProcessedNonBlank = {k}
             => (title = get_text_from_shape(slide[k]) /\ content = <<>>))

C12_Witness ==
    /\ cls_pc = "done"
    /\ Len(slide) = 3
    /\ slide[1].has_text_frame
    /\ ~IsNonBlankText(slide[1])
    /\ slide[2] = Picture
    /\ IsNonBlankText(slide[3])
    /\ slide[3].shape_type # 1
    /\ title = get_text_from_shape(slide[3])
    /\ content = <<>>

----------------------------------------------------------------------------
(* Properties of clean_text (SpecClean).                                   *)

\* s holds a tag: a <, one or more characters other than >, and a >
HasTag(s) ==
    \E p \in 1..Len(s) : \E q \in (p + 2)..Len(s) :
        /\ s[p] = "<"
        /\ s[q] = ">"
        /\ \A r \in (p + 1)..(q - 1) : s[r] # ">"

\* C13: the result of clean_text holds no tag, also for inputs with nested
\* or overlapping angle brackets such as "<<a>b>".
C13_NoTagLeft ==
    cln_pc = "done" => ~HasTag(cln_out)

C13_Witness ==
    /\ cln_pc = "done"
    /\ cln_in = NestedExample
    /\ cln_out = <<"b", ">">>

\* C14: at every point of the shape loop a non-empty content comes with a
\* non-empty title; the returned title is empty exactly when the slide has
\* no non-blank text shape, and then content is empty too.
C14_ContentImpliesTitle ==
    /\ content # <<>> => title # <<>>
    /\ cls_pc = "done" => (title = <<>> <=> NonBlankTextShapes(slide) = {})

C14_Witness ==
    /\ cls_pc = "done"
    /\ Len(slide) = 3
    /\ slide[1] = Picture
    /\ slide[2].shape_type # 1
    /\ Len(content) = 1
    /\ title = <<"b">>

Min(S) == CHOOSE k \in S : \A m \in S : k <= m
Max(S) == CHOOSE k \in S : \A m \in S : k >= m

\* the non-blank title-kind shapes
TitleKind(shapes) ==
    {k \in NonBlankTextShapes(shapes) : shapes[k].shape_type = 1}

RECURSIVE TextsAt(_, _, _)
\* the texts of the shapes at the indexes of S from k on, in shape order
TextsAt(shapes, S, k) ==
    IF k > Len(shapes) THEN <<>>
    ELSE (IF k \in S THEN <<get_text_from_shape(shapes[k])>> ELSE <<>>)
         \o TextsAt(shapes, S, k + 1)

\* C15: the returned title is the text of the last non-blank shape of
\* shape_type 1 if there is one, otherwise of the first non-blank text
\* shape; content is the texts, in order, of the non-blank shapes of another
\* shape_type, the first non-blank shape left out.
C15_ClosedForm ==
    cls_pc = "done"
    => LET nb == NonBlankTextShapes(slide)
           tk == TitleKind(slide)
       IN /\ title = IF tk # {} THEN get_text_from_shape(slide[Max(tk)])
                     ELSE IF nb # {} THEN get_text_from_shape(slide[Min(nb)])
                     ELSE <<>>
          /\ content = TextsAt(slide, (nb \ tk) \ (IF nb = {} THEN {} ELSE {Min(nb)}), 1)

\* a fallback title is overwritten by a later title-kind shape and is lost
C15_Witness ==
    /\ cls_pc = "done"
    /\ Len(slide) = 3
    /\ NonBlankTextShapes(slide) = {1, 2, 3}
    /\ TitleKind(slide) = {2}
    /\ get_text_from_shape(slide[1]) = <<"a">>
    /\ title = <<"b">>
    /\ content = <<<<"a", NL, "b">>>>

----------------------------------------------------------------------------
(* Nesting of the emitted markup (SpecConvert).                            *)

\* the element a fragment of the given kind leaves open, read inside ctx:
\* "top" (the container), "slide", "content" (slide-content), "ul"; "bad"
\* when the fragment may not stand there
NestStep(ctx, kind) ==
    IF ctx = "top"
    THEN (IF kind \in {"header", "div.footer"} THEN "top"
          ELSE IF kind = "div.slide" THEN "slide"
          ELSE "bad")
    ELSE IF ctx = "slide"
    THEN (IF kind \in {"div.slide-number", "h1", "h2.slide-title"} THEN "slide"
          ELSE IF kind = "div.slide-content" THEN "content"
          ELSE IF kind = "/div" THEN "top"
          ELSE "bad")
    ELSE IF ctx = "content"
    THEN (IF kind = "p" THEN "content"
          ELSE IF kind = "ul" THEN "ul"
          ELSE IF kind = "/div" THEN "slide"
          ELSE "bad")
    ELSE IF ctx = "ul"
    THEN (IF kind = "li" THEN "ul"
          ELSE IF kind = "/ul" THEN "content"
          ELSE "bad")
    ELSE "bad"

RECURSIVE Nest(_, _)
Nest(ctx, parts) ==
    IF parts = <<>> THEN ctx
    ELSE Nest(NestStep(ctx, Head(parts).kind), Tail(parts))

Kinds(parts) == [k \in 1..Len(parts) |-> parts[k].kind]

CountKind(parts, kind) == Cardinality({k \in 1..Len(parts) : parts[k].kind = kind})

\* out is one list: <ul>, list items, </ul>
IsOneList(out) ==
    /\ Len(out) >= 2
    /\ out[1].kind = "ul"
    /\ out[Len(out)].kind = "/ul"
    /\ \A k \in 2..(Len(out) - 1) : out[k].kind = "li"

AllParagraphs(out) == \A k \in 1..Len(out) : out[k].kind = "p"

\* C16: the emitted fragments are well nested: a slide <div> is closed
\* before the next opens, <li> stands only between <ul> and </ul> and <p>
\* never does, every <ul> is closed before the next block; a slide-content
\* <div> is opened exactly for a slide with content and closed inside it;
\* each block is rendered as one list or as paragraphs only.
C16_WellNested ==
    /\ [](Nest("top", html_parts) = "top")
    /\ [][(pc = "slides" /\ i <= Len(prs) /\ i' = i + 1)
          => LET new == SubSeq(html_parts', Len(html_parts) + 1, Len(html_parts'))
                 blocks == get_slide_content(prs[i]).content
                 lists == {k \in 1..Len(blocks) : HasBullets(Split(blocks[k], NL))}
             IN /\ new[1].kind = "div.slide"
                /\ CountKind(new, "div.slide") = 1
                /\ CountKind(new, "div.slide-content") = (IF blocks # <<>> THEN 1 ELSE 0)
                /\ CountKind(new, "/div") = (IF blocks # <<>> THEN 2 ELSE 1)
                /\ CountKind(new, "ul") = Cardinality(lists)
                /\ CountKind(new, "/ul") = Cardinality(lists)
                /\ \A k \in 1..Len(blocks) :
                      \/ k \in lists /\ IsOneList(RenderItem(blocks[k]))
                      \/ k \notin lists /\ AllParagraphs(RenderItem(blocks[k]))]_vars

C16_Witness ==
    /\ pc = "done"
    /\ Len(prs) = 2
    /\ prs[1] = <<>>
    /\ Kinds(html_parts) =
          << "header",
             "div.slide", "div.slide-number", "/div",
             "div.slide", "div.slide-number", "h1", "div.slide-content",
             "ul", "li", "/ul", "p", "/div", "/div",
             "div.footer" >>

----------------------------------------------------------------------------
(* escape_html applied twice (SpecEscape).                                 *)

Special == {"&", "<", ">", "\"", "'"}

\* C17: escaping an escaped text gives the same text exactly when the input
\* holds none of & < > " '; otherwise the second application changes it, by
\* escaping the & of each entity once more.
C17_IdempotentIffPlain ==
    esc_pc = "twice"
    => /\ (esc_again = esc_out) <=> (\A k \in 1..Len(esc_in) : esc_in[k] \notin Special)
       /\ esc_again =
             Concat([k \in 1..Len(esc_in) |->
                        IF esc_in[k] \in Special
                        THEN AMP \o Tail(EntityOf(esc_in[k]))
                        ELSE <<esc_in[k]>>])

C17_Witness ==
    /\ esc_pc = "twice"
    /\ esc_in = <<"a", "<">>
    /\ esc_out = <<"a">> \o LT
    /\ esc_again = <<"a">> \o AMP \o <<"l", "t", ";">>

====
